---- MODULE Spec2Model ----
(***************************************************************************)
(* The attribute-order rule of ember-template-lint                         *)
(* (lib/rules/attribute-order.js): one rule instance, its parsed config,   *)
(* its memoized applied order and token groups, and the element or         *)
(* mustache node it visits.  Strings are sequences of UTF-16 code units so *)
(* that JavaScript's string comparison and the normalising regular         *)
(* expression are computed, not assumed.  Array.prototype.sort is the one  *)
(* of V8 (the engine of Node.js, which runs the linter): for arrays        *)
(* shorter than 64 elements, one natural run followed by a binary          *)
(* insertion sort.                                                         *)
(***************************************************************************)
EXTENDS Integers, Sequences, FiniteSets, TLC

VARIABLES pc, config, mode, appliedOrder, tokenGroups, orig, node, tree,
          requests, log

vars == <<pc, config, mode, appliedOrder, tokenGroups, orig, node, tree,
          requests, log>>

(* ----------------------------- bounds ---------------------------------- *)

\* the largest number of tokens (attributes, modifiers, comments) of a node
MaxTokens == 3

\* the largest number of tokens of a node where one rule instance visits two
\* elements in a row
MaxSeqTokens == 2

(* --------------------------- token types ------------------------------- *)

ARGUMENTS == "arguments"

ATTRIBUTES == "attributes"

MODIFIERS == "modifiers"

SPLATTRIBUTES == "splattributes"

COMMENTS == "comments"

\* Object.values(TokenType), in insertion order
TokenTypes == <<ARGUMENTS, ATTRIBUTES, MODIFIERS, SPLATTRIBUTES, COMMENTS>>

DEFAULT_ORDER == <<ARGUMENTS, ATTRIBUTES, MODIFIERS>>

DEFAULT_CONFIG == [alphabetize |-> TRUE, order |-> DEFAULT_ORDER]

\* JavaScript's undefined, where a number is expected (positions are >= 0)
UNDEF == -1

(* ------------------------------ strings -------------------------------- *)

\* "...attributes"
SplatName == <<46, 46, 46, 97, 116, 116, 114, 105, 98, 117, 116, 101, 115>>

\* a < b for two JavaScript strings (code unit by code unit)
StrLt(a, b) ==
    \E i \in 1..(Len(b)) :
        /\ \A j \in 1..(i - 1) : j <= Len(a) /\ a[j] = b[j]
        /\ \/ i = Len(a) + 1
           \/ i <= Len(a) /\ a[i] < b[i]

StrGt(a, b) == StrLt(b, a)

StartsWith(s, p) == Len(s) >= Len(p) /\ \A i \in 1..Len(p) : s[i] = p[i]

IsAlpha(c) == c \in (65..90) \cup (97..122)

\* \w or "-"
IsWordOrDash(c) == IsAlpha(c) \/ c \in (48..57) \/ c = 95 \/ c = 45

\* src.match(/([^A-Za-z]*)([\w-]*)/)[2]
RegexName(src) ==
    LET n == Len(src)
        from == IF \E i \in 1..n : IsAlpha(src[i])
                THEN CHOOSE i \in 1..n :
                        IsAlpha(src[i]) /\ \A j \in 1..(i - 1) : ~IsAlpha(src[j])
                ELSE n + 1
        upto == IF \E i \in from..n : ~IsWordOrDash(src[i])
                THEN (CHOOSE i \in from..n :
                        ~IsWordOrDash(src[i])
                        /\ \A j \in from..(i - 1) : IsWordOrDash(src[j])) - 1
                ELSE n
    IN  SubSeq(src, from, upto)

(* ------------------------------- tokens -------------------------------- *)

AttrNode == "AttrNode"

ElementModifierStatement == "ElementModifierStatement"

MustacheCommentStatement == "MustacheCommentStatement"

HashPair == "HashPair"

\* a token: its node type, its name (an attribute's name, a modifier's
\* path.original, a comment's value), and loc.start.line, loc.start.column
\* and loc.end.column - loc.start.column
Tok(k, nm, l, c, w) == [kind |-> k, name |-> nm, line |-> l, col |-> c, width |-> w]

\* no token (undefined)
NoToken == Tok("undefined", <<>>, 0, 0, 0)

\* the source text of a token: name="1", ...attributes, {{m}}, {{!c}}
sourceForNode(t) ==
    CASE t.kind = AttrNode ->
            IF t.name = SplatName THEN t.name ELSE t.name \o <<61, 34, 49, 34>>
      [] t.kind = HashPair -> t.name \o <<61, 49>>
      [] t.kind = ElementModifierStatement -> <<123, 123>> \o t.name \o <<125, 125>>
      [] OTHER -> <<123, 123, 33>> \o t.name \o <<125, 125>>

calculateAttributeIndex(t) == t.line * t.col

getTokenType(t) ==
    IF t.kind = MustacheCommentStatement THEN COMMENTS
    ELSE IF t.kind = ElementModifierStatement THEN MODIFIERS
    ELSE IF StartsWith(t.name, <<64>>) THEN ARGUMENTS
    ELSE IF StartsWith(t.name, <<46, 46, 46>>) THEN SPLATTRIBUTES
    ELSE ATTRIBUTES

getTokenCategory(tokenType) ==
    IF tokenType \in {ARGUMENTS, ATTRIBUTES, SPLATTRIBUTES} THEN ATTRIBUTES ELSE tokenType

(* ------------------------- sequence helpers ---------------------------- *)

Range(s) == {s[i] : i \in 1..Len(s)}

\* s.filter(P) for the elements whose token type is ty
OfType(s, ty) == SelectSeq(s, LAMBDA t : getTokenType(t) = ty)

\* Math.max(...s), Math.min(...s) of a non-empty sequence of numbers
MaxOf(S) == CHOOSE x \in S : \A y \in S : y <= x

MinOf(S) == CHOOSE x \in S : \A y \in S : x <= y

\* a > b, a < b in JavaScript when either side may be undefined
JsGt(a, b) == a # UNDEF /\ b # UNDEF /\ a > b

JsLt(a, b) == a # UNDEF /\ b # UNDEF /\ a < b

\* s.indexOf(x), 0-based, -1 when absent
IndexOf(s, x) ==
    IF \E i \in 1..Len(s) : s[i] = x
    THEN (CHOOSE i \in 1..Len(s) : s[i] = x /\ \A j \in 1..(i - 1) : s[j] # x) - 1
    ELSE -1

\* s.splice(at, 0, x) with a 0-based position
Splice(s, at, x) == SubSeq(s, 1, at) \o <<x>> \o SubSeq(s, at + 1, Len(s))

(* ------------------------------ TokenGroup ----------------------------- *)

\* getElementNodeTokens or getMustacheStatementTokens, then groupTokens and
\* makeTokenGroups: the items of each group (every hash pair of a mustache
\* statement is an attribute)
makeTokenGroups(n) ==
    [ty \in Range(TokenTypes) |->
        IF n.type = "MustacheStatement"
        THEN (IF ty = ATTRIBUTES THEN n.attributes ELSE <<>>)
        ELSE IF ty = MODIFIERS THEN n.modifiers
        ELSE IF ty = COMMENTS THEN n.comments
        ELSE OfType(n.attributes, ty)]

indexes(items) == [i \in 1..Len(items) |-> calculateAttributeIndex(items[i])]

lastIndex(items) == IF Len(items) > 0 THEN MaxOf(Range(indexes(items))) ELSE UNDEF

firstIndex(items) == IF Len(items) > 0 THEN MinOf(Range(indexes(items))) ELSE UNDEF

\* 0-based index of the first item that sorts before its predecessor, or -1
unalphabetizedItemIndex(items) ==
    LET alpha == [i \in 1..Len(items) |-> RegexName(sourceForNode(items[i]))]
        bad   == {i \in 2..Len(items) : StrLt(alpha[i], alpha[i - 1])}
    IN  IF bad = {} THEN -1 ELSE MinOf(bad) - 1

findUnalphabetizedToken(items) ==
    LET i == unalphabetizedItemIndex(items)
    IN  IF i >= 0 THEN items[i + 1] ELSE NoToken

(* ------------------------- Array.prototype.sort ------------------------ *)

\* V8 CountAndMakeRun(0, n): the length of the leading natural run
CountRun(a, cmp) ==
    LET n == Len(a)
        isDescending == cmp[<<a[2], a[1]>>] < 0
        Continues(idx) ==
            IF isDescending THEN cmp[<<a[idx], a[idx - 1]>>] < 0
                            ELSE cmp[<<a[idx], a[idx - 1]>>] >= 0
    IN  CHOOSE r \in 2..n :
            /\ \A i \in 3..r : Continues(i)
            /\ r = n \/ ~Continues(r + 1)

\* V8 CountAndMakeRun(0, n): a strictly descending run is reversed in place
MakeRun(a, cmp) ==
    LET r == CountRun(a, cmp)
    IN  IF cmp[<<a[2], a[1]>>] < 0
        THEN [i \in 1..Len(a) |-> IF i <= r THEN a[r + 1 - i] ELSE a[i]]
        ELSE a

\* the binary search of V8 BinaryInsertionSort, left and right 0-based
RECURSIVE BinarySearch(_, _, _, _, _)
BinarySearch(a, cmp, pivot, left, right) ==
    IF left < right
    THEN LET mid == left + ((right - left) \div 2)
         IN  IF cmp[<<pivot, a[mid + 1]>>] < 0
             THEN BinarySearch(a, cmp, pivot, left, mid)
             ELSE BinarySearch(a, cmp, pivot, mid + 1, right)
    ELSE left

\* V8 BinaryInsertionSort(0, start, n)
RECURSIVE BinaryInsertionSort(_, _, _)
BinaryInsertionSort(a, cmp, start) ==
    IF start >= Len(a) THEN a
    ELSE LET pivot == a[start + 1]
             left  == BinarySearch(a, cmp, pivot, 0, start)
             moved == SubSeq(a, 1, left) \o <<pivot>> \o SubSeq(a, left + 1, start)
                      \o SubSeq(a, start + 2, Len(a))
         IN  BinaryInsertionSort(moved, cmp, start + 1)

\* a.sort(cmp) for an array shorter than 64 elements
ArraySort(a, cmp) ==
    IF Len(a) < 2 THEN a
    ELSE BinaryInsertionSort(MakeRun(a, cmp), cmp, CountRun(a, cmp))

(* -------------------------- applied order ------------------------------ *)

NEGATIVE_INFINITY == -1000000

POSITIVE_INFINITY == 1000000

\* a JavaScript number used as a condition
Truthy(x) == x # UNDEF /\ x # 0

\* the lastIndex of every group that is an integer
LastIndexes(groups) == {lastIndex(groups[ty]) : ty \in DOMAIN groups} \ {UNDEF}

\* resolveAppliedOrder with its two tests in the other order: the spread is
\* prepended whenever it holds the least last position
resolveAppliedOrderMinFirst(groups, order) ==
    LET maxLastIndex == IF LastIndexes(groups) = {} THEN NEGATIVE_INFINITY
                        ELSE MaxOf(LastIndexes(groups))
        minLastIndex == IF LastIndexes(groups) = {} THEN POSITIVE_INFINITY
                        ELSE MinOf(LastIndexes(groups))
        orderMinusSplattributes == SelectSeq(order, LAMBDA ty : ty # SPLATTRIBUTES)
        splattributeLastIndex == lastIndex(groups[SPLATTRIBUTES])
        attributeLastIndex == lastIndex(groups[ATTRIBUTES])
    IN  IF \/ splattributeLastIndex = minLastIndex
           \/ Truthy(splattributeLastIndex)
              /\ JsLt(splattributeLastIndex, attributeLastIndex)
        THEN <<SPLATTRIBUTES>> \o orderMinusSplattributes
        ELSE orderMinusSplattributes \o <<SPLATTRIBUTES>>

\* the order resolved from the token groups of a node
resolveAppliedOrder(groups, order) ==
    LET maxLastIndex == IF LastIndexes(groups) = {} THEN NEGATIVE_INFINITY
                        ELSE MaxOf(LastIndexes(groups))
        minLastIndex == IF LastIndexes(groups) = {} THEN POSITIVE_INFINITY
                        ELSE MinOf(LastIndexes(groups))
        orderMinusSplattributes == SelectSeq(order, LAMBDA ty : ty # SPLATTRIBUTES)
        splattributeLastIndex == lastIndex(groups[SPLATTRIBUTES])
        attributeLastIndex == lastIndex(groups[ATTRIBUTES])
    IN  IF \/ splattributeLastIndex = maxLastIndex
           \/ Truthy(splattributeLastIndex)
              /\ JsGt(splattributeLastIndex, attributeLastIndex)
        THEN orderMinusSplattributes \o <<SPLATTRIBUTES>>
        ELSE IF \/ splattributeLastIndex = minLastIndex
                \/ Truthy(splattributeLastIndex)
                   /\ JsLt(splattributeLastIndex, attributeLastIndex)
        THEN <<SPLATTRIBUTES>> \o orderMinusSplattributes
        ELSE orderMinusSplattributes \o <<SPLATTRIBUTES>>

\* getAppliedOrder: the memoized order when there is one (<<>> is undefined)
getAppliedOrder(memo, groups, order) ==
    IF memo # <<>> THEN memo ELSE resolveAppliedOrder(groups, order)

\* getOrder: applied.indexOf(tokenType)
getOrder(applied, tokenType) == IndexOf(applied, tokenType)

(* ------------------------- violation detector -------------------------- *)

areSplattributesSurrounded(groups) ==
    LET splattributeLastIndex == lastIndex(groups[SPLATTRIBUTES])
        lasts  == {IF Truthy(lastIndex(groups[ty])) THEN lastIndex(groups[ty])
                   ELSE NEGATIVE_INFINITY : ty \in DOMAIN groups}
        firsts == {IF Truthy(firstIndex(groups[ty])) THEN firstIndex(groups[ty])
                   ELSE POSITIVE_INFINITY : ty \in DOMAIN groups}
        maxIndex == MaxOf(lasts)
        minIndex == MinOf(firsts)
    IN  /\ splattributeLastIndex # UNDEF
        /\ splattributeLastIndex > minIndex
        /\ splattributeLastIndex < maxIndex

\* the group at a 0-based place of the applied order (undefined: no items)
GroupAt(groups, applied, i) ==
    IF i + 1 <= Len(applied) /\ applied[i + 1] \in DOMAIN groups
    THEN groups[applied[i + 1]] ELSE <<>>

isAttributeUnordered(tokenType, applied, groups) ==
    LET order == getOrder(applied, tokenType)
        last  == lastIndex(groups[tokenType])
    IN  IF Len(groups[tokenType]) = 0 THEN FALSE
        ELSE IF areSplattributesSurrounded(groups) THEN FALSE
        ELSE CASE order = 0 ->
                    \/ JsGt(last, firstIndex(GroupAt(groups, applied, 1)))
                    \/ JsGt(last, firstIndex(GroupAt(groups, applied, 2)))
                    \/ JsGt(last, firstIndex(GroupAt(groups, applied, 3)))
               [] order = 1 ->
                    \/ JsLt(last, firstIndex(GroupAt(groups, applied, 0)))
                    \/ JsGt(last, firstIndex(GroupAt(groups, applied, 2)))
               [] order = 2 ->
                    \/ JsLt(last, lastIndex(GroupAt(groups, applied, 1)))
                    \/ JsGt(last, lastIndex(GroupAt(groups, applied, 3)))
               [] order = 3 ->
                    JsLt(last, lastIndex(GroupAt(groups, applied, 2)))
               [] OTHER -> FALSE


(* -------------------------------- nodes -------------------------------- *)

ElementNode == "ElementNode"

MustacheStatement == "MustacheStatement"

\* an element node (attributes, modifiers, comments, loc.start.line, tag.length,
\* whether sourceForNode finds text for it) or a mustache statement
\* (attributes holds hash.pairs, pathIsPath is path.type === 'PathExpression')
Node(ty, attrs, mods, cmts, l, tl, src, path) ==
    [type |-> ty, attributes |-> attrs, modifiers |-> mods, comments |-> cmts,
     line |-> l, tagLen |-> tl, hasSource |-> src, pathIsPath |-> path]

NoNode == Node("undefined", <<>>, <<>>, <<>>, 0, 0, FALSE, FALSE)

(* -------------------------------- fixer -------------------------------- *)

\* makeToken: the node built for a token of the given category at a location
makeToken(nodeType, t, l, c, w) ==
    Tok(IF nodeType = MODIFIERS THEN ElementModifierStatement
        ELSE IF nodeType = COMMENTS THEN MustacheCommentStatement
        ELSE AttrNode,
        t.name, l, c, w)

\* the reduce of replaceNode: every token rebuilt on the node's first line,
\* left to right from cursor || minColumn; cursor = 0 is "no cursor yet"
RECURSIVE Relocate(_, _, _)
Relocate(n, sorted, cursor) ==
    IF Len(sorted) = 0 THEN <<>>
    ELSE LET currAttr    == Head(sorted)
             nodeType    == getTokenCategory(getTokenType(currAttr))
             minColumn   == n.tagLen + 2
             startColumn == IF cursor # 0 THEN cursor ELSE minColumn
             endColumn   == startColumn + currAttr.width
         IN  <<makeToken(nodeType, currAttr, n.line, startColumn, endColumn - startColumn)>>
             \o Relocate(n, Tail(sorted), endColumn + 2)

\* replaceNode: the element built from the sorted tokens (b.element gives it
\* no source location)
replaceNode(n, sorted) ==
    LET placed == Relocate(n, sorted, 0)
        Of(cat) == SelectSeq(placed, LAMBDA t : getTokenCategory(getTokenType(t)) = cat)
    IN  Node(ElementNode, Of(ATTRIBUTES), Of(MODIFIERS), Of(COMMENTS),
             1, n.tagLen, FALSE, FALSE)

\* the numbers of a sequence, in ascending order ([...].sort((a, b) => a - b))
RECURSIVE SortNumbers(_)
SortNumbers(s) ==
    IF Len(s) = 0 THEN <<>>
    ELSE LET m == MinOf(Range(s))
             i == IndexOf(s, m) + 1
         IN  <<m>> \o SortNumbers(SubSeq(s, 1, i - 1) \o SubSeq(s, i + 1, Len(s)))

\* every item of every group, in the order Object.values(tokenGroups) gives
AllItems(groups) ==
    groups[ARGUMENTS] \o groups[ATTRIBUTES] \o groups[MODIFIERS]
    \o groups[SPLATTRIBUTES] \o groups[COMMENTS]

getAllIndexes(groups) == SortNumbers(indexes(AllItems(groups)))

\* getNode({type, name, value}) for a comment: the first item of the groups
\* with the comment's type and value
getNode(groups, comment) ==
    LET all == AllItems(groups)
        hit == {i \in 1..Len(all) :
                    all[i].kind = comment.kind /\ all[i].name = comment.name}
    IN  IF hit = {} THEN NoToken ELSE all[MinOf(hit)]

\* sorted.findIndex(node => indexOfNext && index(node) === indexOfNext), 0-based
FindAnchor(sorted, indexOfNext) ==
    LET hit == {i \in 1..Len(sorted) :
                    Truthy(indexOfNext)
                    /\ calculateAttributeIndex(sorted[i]) = indexOfNext}
    IN  IF hit = {} THEN -1 ELSE MinOf(hit) - 1

\* getAllIndexes.length: the number of parameters of the method
GetAllIndexesLength == 0

\* the while loop of orderComment over the comments, latest first
RECURSIVE CommentLoop(_, _, _)
CommentLoop(groups, reverseComments, sorted) ==
    IF Len(reverseComments) = 0 THEN sorted
    ELSE LET comment     == Head(reverseComments)
             token       == getNode(groups, comment)
             all         == getAllIndexes(groups)
             fromOrder   == IndexOf(all, calculateAttributeIndex(token))
             indexOfNext == IF fromOrder + 2 <= Len(all) THEN all[fromOrder + 2] ELSE UNDEF
             toPosInSorted ==
                 IF fromOrder = GetAllIndexesLength - 1 THEN fromOrder
                 ELSE FindAnchor(sorted, indexOfNext)
         IN  CommentLoop(groups, Tail(reverseComments),
                         IF toPosInSorted < 0 THEN sorted
                         ELSE Splice(sorted, toPosInSorted, token))

CompareCommentsReverse(a, b) == calculateAttributeIndex(b) - calculateAttributeIndex(a)

\* orderComment: node.comments is sorted in place and shifted until empty
orderComment(groups, nodeComments, sorted) ==
    CommentLoop(groups,
                ArraySort(nodeComments,
                          [p \in Range(nodeComments) \X Range(nodeComments) |->
                              CompareCommentsReverse(p[1], p[2])]),
                sorted)

\* the comparator of node.attributes.sort in alphabetizeAttribute
CompareAttrNames(applied, a, b) ==
    IF a.name = SplatName
    THEN (IF getOrder(applied, SPLATTRIBUTES) = 3 THEN 1 ELSE -1)
    ELSE IF StrGt(a.name, b.name) THEN 1 ELSE -1

\* the comparator of node.modifiers.sort, and of node.hash.pairs.sort
CompareNames(a, b) == IF StrGt(a.name, b.name) THEN 1 ELSE -1

\* b.attr(name, value), b.elementModifier(path, params, hash): a node with the
\* synthetic location, line 1 column 0 to line 1 column 0
Synthetic(t) == Tok(t.kind, t.name, 1, 0, 0)

\* the comparator of orderAttribute; a boolean result counts as 1 or 0
CompareOrder(applied, a, b) ==
    LET orderA == getOrder(applied, getTokenType(a))
        orderB == getOrder(applied, getTokenType(b))
    IN  IF orderA = orderB
        THEN (IF calculateAttributeIndex(a) > calculateAttributeIndex(b) THEN 1 ELSE 0)
        ELSE IF orderA > orderB THEN 1 ELSE -1

ALPHABETIZE == "alphabetize"

ORDER == "order"

FIX == "fix"

DETECT == "detect"

\* a diagnostic: this.log({message, isFixable: true, node})
Diagnostic(what, tokenType, item) ==
    [message |-> what, tokenType |-> tokenType, source |-> sourceForNode(item),
     isFixable |-> TRUE]

\* alphabetizeAttribute; st is the visit so far: the node's own arrays, the
\* node in the parent's slot, the replace requests made (each named after the
\* fix that made it) and the log
alphabetizeAttribute(st, tokenType, n, groups, applied, m) ==
    LET item == findUnalphabetizedToken(groups[tokenType])
    IN  IF item = NoToken THEN st
        ELSE IF m = FIX
        THEN LET attrsSorted == ArraySort(st.attributes,
                                    [p \in Range(st.attributes) \X Range(st.attributes) |->
                                        CompareAttrNames(applied, p[1], p[2])])
                 modsSorted  == ArraySort(st.modifiers,
                                    [p \in Range(st.modifiers) \X Range(st.modifiers) |->
                                        CompareNames(p[1], p[2])])
                 attrs       == [i \in 1..Len(attrsSorted) |-> Synthetic(attrsSorted[i])]
                 modifiers   == [i \in 1..Len(modsSorted) |-> Synthetic(modsSorted[i])]
                 comments    == st.comments
                 sorted      == attrs \o modifiers \o comments
                 reordered   == IF Len(comments) > 0
                                THEN orderComment(groups, st.comments, sorted)
                                ELSE sorted
             IN  [st EXCEPT !.attributes = attrsSorted,
                            !.modifiers  = modsSorted,
                            !.comments   = <<>>,
                            !.tree       = replaceNode(n, reordered),
                            !.requests   = @ \o <<ALPHABETIZE, ALPHABETIZE>>]
        ELSE [st EXCEPT !.log = Append(@, Diagnostic("is not alphabetized", tokenType, item))]

\* findUnorderedToken: the item of the group at its lastIndex
findUnorderedToken(items) ==
    LET hit == {i \in 1..Len(items) : calculateAttributeIndex(items[i]) = lastIndex(items)}
    IN  IF hit = {} THEN NoToken ELSE items[MinOf(hit)]

orderAttribute(st, tokenType, n, groups, applied, m) ==
    LET item == findUnorderedToken(groups[tokenType])
    IN  IF m = FIX
        THEN LET attributesModifiers == st.attributes \o st.modifiers
                 sorted    == ArraySort(attributesModifiers,
                                  [p \in Range(attributesModifiers) \X Range(attributesModifiers) |->
                                      CompareOrder(applied, p[1], p[2])])
                 reordered == IF Len(st.comments) > 0
                              THEN orderComment(groups, st.comments, sorted)
                              ELSE sorted
             IN  [st EXCEPT !.comments = <<>>,
                            !.tree     = replaceNode(n, reordered),
                            !.requests = Append(@, ORDER)]
        ELSE [st EXCEPT !.log = Append(@, Diagnostic("must go", tokenType, item))]

\* one round of the loop of checkElementAttributesOrder
checkTokenType(st, tokenType, n, groups, applied, cfg, m) ==
    LET isAttributeUnalphabetized ==
            \E ty \in DOMAIN groups :
                ty # COMMENTS /\ findUnalphabetizedToken(groups[ty]) # NoToken
        st1 == IF cfg.alphabetize /\ isAttributeUnalphabetized
                  /\ ~areSplattributesSurrounded(groups)
               THEN alphabetizeAttribute(st, tokenType, n, groups, applied, m)
               ELSE st
    IN  IF isAttributeUnordered(tokenType, applied, groups)
        THEN orderAttribute(st1, tokenType, n, groups, applied, m)
        ELSE st1

RECURSIVE checkLoop(_, _, _, _, _, _, _)
checkLoop(st, i, n, groups, applied, cfg, m) ==
    IF i > Len(cfg.order) THEN st
    ELSE checkLoop(checkTokenType(st, cfg.order[i], n, groups, applied, cfg, m),
                   i + 1, n, groups, applied, cfg, m)

\* the visit before its first round: nothing replaced, nothing logged
StartVisit(n) ==
    [attributes |-> n.attributes, modifiers |-> n.modifiers, comments |-> n.comments,
     tree |-> NoNode, requests |-> <<>>, log |-> <<>>]

\* checkElementAttributesOrder for a node with source text
checkElementAttributesOrder(n, memo, cfg, m) ==
    LET groups == makeTokenGroups(n)
    IN  checkLoop(StartVisit(n), 1, n, groups,
                  getAppliedOrder(memo, groups, cfg.order), cfg, m)


\* checkMustacheAttributesOrder for a statement with source text and a path:
\* in fix mode node.hash.pairs is sorted in place, nothing is replaced
checkMustacheAttributesOrder(n, cfg, m) ==
    LET tokenGroup == makeTokenGroups(n)[ATTRIBUTES]
        item       == findUnalphabetizedToken(tokenGroup)
    IN  IF cfg.alphabetize /\ unalphabetizedItemIndex(tokenGroup) >= 0
        THEN IF m = FIX
             THEN [StartVisit(n) EXCEPT
                      !.attributes = ArraySort(n.attributes,
                                               [p \in Range(n.attributes) \X Range(n.attributes) |->
                                                   CompareNames(p[1], p[2])])]
             ELSE [StartVisit(n) EXCEPT
                      !.log = <<Diagnostic("is not alphabetized", ATTRIBUTES, item)>>]
        ELSE StartVisit(n)

(* ------------------------------- config -------------------------------- *)

\* a raw config value: true, false, a string, or an object with the keys it has
RawBoolean(b) == [type |-> "boolean", value |-> b, keys |-> {}, alphabetize |-> FALSE, order |-> <<>>]

RawString == [type |-> "string", value |-> FALSE, keys |-> {}, alphabetize |-> FALSE, order |-> <<>>]

RawObject(ks, a, o) == [type |-> "object", value |-> FALSE, keys |-> ks, alphabetize |-> a, order |-> o]

\* isValidConfigObjectFormat(config, DEFAULT_CONFIG): a boolean, or an object
\* that has only keys of the default config
isValidConfigObjectFormat(raw) ==
    \/ raw.type = "boolean"
    \/ raw.type = "object" /\ raw.keys \subseteq {"alphabetize", "order"}

ConfigError == "error"

Disabled == "disabled"

Ready == "ready"

\* parseConfig: <<outcome, config>>
parseConfig(raw) ==
    IF ~isValidConfigObjectFormat(raw) THEN <<ConfigError, DEFAULT_CONFIG>>
    ELSE IF raw.type = "boolean" /\ raw.value = FALSE THEN <<Disabled, DEFAULT_CONFIG>>
    ELSE IF raw.type = "object"
    THEN IF /\ "order" \in raw.keys
            /\ ~\A attribute \in {ARGUMENTS, ATTRIBUTES, MODIFIERS} :
                    attribute \in Range(raw.order)
         THEN <<ConfigError, DEFAULT_CONFIG>>
         ELSE <<Ready,
                [alphabetize |-> IF "alphabetize" \in raw.keys THEN raw.alphabetize
                                 ELSE DEFAULT_CONFIG.alphabetize,
                 order       |-> IF "order" \in raw.keys THEN raw.order
                                 ELSE DEFAULT_CONFIG.order]>>
    ELSE <<Ready, DEFAULT_CONFIG>>

(* ------------------------------- inputs -------------------------------- *)

\* the orders a raw config is tried with: the six permutations, one that
\* omits modifiers, one with splattributes added, and the empty array
OrderPermutations ==
    {o \in [1..3 -> {ARGUMENTS, ATTRIBUTES, MODIFIERS}] : \A i, j \in 1..3 : i # j => o[i] # o[j]}

RawOrders ==
    OrderPermutations \cup {<<ARGUMENTS, ATTRIBUTES>>,
                       <<ARGUMENTS, ATTRIBUTES, MODIFIERS, SPLATTRIBUTES>>}

RawConfigs ==
    {RawBoolean(TRUE), RawBoolean(FALSE), RawString,
     RawObject({"alphabetize", "order", "other"}, TRUE, DEFAULT_ORDER)}
    \cup {RawObject({"alphabetize", "order"}, a, o) : a \in BOOLEAN, o \in RawOrders}

\* the names tokens are drawn from: @a; a, b, ...attributes; the modifiers m, n;
\* the comments c, d
Shapes ==
    {[kind |-> AttrNode, name |-> <<64, 97>>],
     [kind |-> AttrNode, name |-> <<97>>],
     [kind |-> AttrNode, name |-> <<98>>],
     [kind |-> AttrNode, name |-> SplatName],
     [kind |-> ElementModifierStatement, name |-> <<109>>],
     [kind |-> ElementModifierStatement, name |-> <<110>>],
     [kind |-> MustacheCommentStatement, name |-> <<99>>],
     [kind |-> MustacheCommentStatement, name |-> <<100>>]}

\* the places of the tokens of <div ...>, in source order: three on the first
\* line and two on the second, as <<line, column>>
Slots == <<(<<1, 5>>), (<<1, 20>>), (<<1, 40>>), (<<2, 0>>), (<<2, 20>>)>>

\* the tokens at the chosen slots, in source order
RECURSIVE TokensAt(_, _, _)
TokensAt(S, f, i) ==
    IF i > Len(Slots) THEN <<>>
    ELSE (IF i \in S
          THEN <<Tok(f[i].kind, f[i].name, Slots[i][1], Slots[i][2],
                     Len(sourceForNode(Tok(f[i].kind, f[i].name, 0, 0, 0))))>>
          ELSE <<>>)
         \o TokensAt(S, f, i + 1)

OfKind(s, k) == SelectSeq(s, LAMBDA t : t.kind = k)

\* <div ...> parsed: its attributes, modifiers and comments, each in source order
ParsedElement(S, f) ==
    LET toks == TokensAt(S, f, 1)
    IN  Node(ElementNode, OfKind(toks, AttrNode), OfKind(toks, ElementModifierStatement),
             OfKind(toks, MustacheCommentStatement), 1, 3, TRUE, FALSE)

ElementNodes ==
    {ParsedElement(S, f) :
        <<S, f>> \in {sf \in UNION {{<<T, g>> : g \in [T -> Shapes]} :
                                       T \in {T \in SUBSET (1..Len(Slots)) :
                                                 Cardinality(T) <= MaxTokens}} :
                        \A i, j \in sf[1] : i # j => sf[2][i] # sf[2][j]}}

\* the elements of at most MaxSeqTokens tokens, all on the first line
SeqNodes ==
    {e \in ElementNodes :
        /\ Len(e.attributes) + Len(e.modifiers) + Len(e.comments) <= MaxSeqTokens
        /\ \A t \in Range(e.attributes \o e.modifiers \o e.comments) : t.line = 1}

\* {{foo b=1 a=2}}: hash pairs with the keys a, b, c on one line
PairKeys == {<<97>>, <<98>>, <<99>>}

MustacheNodes ==
    {Node(MustacheStatement,
          [i \in 1..Len(ks) |-> Tok(HashPair, ks[i], 1, 6 + 4 * i, 3)],
          <<>>, <<>>, 1, 0, TRUE, p) :
        <<ks, p>> \in {kp \in (UNION {[1..k -> PairKeys] : k \in 0..MaxTokens}) \X BOOLEAN :
                          \A i, j \in 1..Len(kp[1]) : i # j => kp[1][i] # kp[1][j]}}


(* ------------------------------- actions ------------------------------- *)

NoConfig == [alphabetize |-> FALSE, order |-> <<>>]

NoGroups == [ty \in Range(TokenTypes) |-> <<>>]

New == "new"

Visited == "visited"

Revisited == "revisited"

Relinted == "relinted"

\* a rule instance is constructed in fix or in detection mode
Init ==
    /\ pc = New
    /\ mode \in {FIX, DETECT}
    /\ config = NoConfig
    /\ appliedOrder = <<>>
    /\ tokenGroups = NoGroups
    /\ orig = NoNode
    /\ node = NoNode
    /\ tree = NoNode
    /\ requests = <<>>
    /\ log = <<>>

\* the host hands the rule one of the raw configs
ParseConfigIn(raws) ==
    /\ pc = New
    /\ \E raw \in raws :
        /\ pc' = parseConfig(raw)[1]
        /\ config' = IF parseConfig(raw)[1] = Ready THEN parseConfig(raw)[2] ELSE NoConfig
    /\ UNCHANGED <<mode, appliedOrder, tokenGroups, orig, node, tree, requests, log>>

ParseConfig == ParseConfigIn(RawConfigs)

\* the state a visit of element n leaves, for an instance with the given memo:
\* orig is the node as it was handed over, node the same object afterwards,
\* tree the node in the parent's slot
ElementVisit(n, memo, m) ==
    \E st \in {checkElementAttributesOrder(n, memo, config, m)} :
        /\ tokenGroups' = makeTokenGroups(n)
        /\ appliedOrder' = getAppliedOrder(memo, makeTokenGroups(n), config.order)
        /\ orig' = n
        /\ node' = [n EXCEPT !.attributes = st.attributes, !.modifiers = st.modifiers,
                             !.comments = st.comments]
        /\ tree' = IF Len(st.requests) > 0 THEN st.tree ELSE node'
        /\ requests' = st.requests
        /\ log' = st.log

\* the visitor's ElementNode handler on the first element the instance meets
VisitElementIn(nodes) ==
    /\ pc = Ready
    /\ \E n \in nodes : ElementVisit(n, appliedOrder, mode)
    /\ pc' = Visited
    /\ UNCHANGED <<config, mode>>

VisitElement == VisitElementIn(ElementNodes)

\* the ElementNode handler on an element that has no source text: skipped
VisitSyntheticElement ==
    /\ pc = Ready
    /\ \E n \in {e \in ElementNodes : Len(e.attributes) + Len(e.modifiers) + Len(e.comments) <= 1} :
        /\ orig' = [n EXCEPT !.hasSource = FALSE]
        /\ node' = [n EXCEPT !.hasSource = FALSE]
        /\ tree' = [n EXCEPT !.hasSource = FALSE]
    /\ requests' = <<>>
    /\ log' = <<>>
    /\ pc' = Visited
    /\ UNCHANGED <<config, mode, appliedOrder, tokenGroups>>

\* the visitor's MustacheStatement handler
VisitMustache ==
    /\ pc = Ready
    /\ \E n \in MustacheNodes :
        \E st \in {checkMustacheAttributesOrder(n, config, mode)} :
            /\ tokenGroups' = IF n.pathIsPath THEN makeTokenGroups(n) ELSE tokenGroups
            /\ orig' = n
            /\ node' = IF n.pathIsPath THEN [n EXCEPT !.attributes = st.attributes] ELSE n
            /\ tree' = node'
            /\ log' = IF n.pathIsPath THEN st.log ELSE <<>>
    /\ requests' = <<>>
    /\ pc' = Visited
    /\ UNCHANGED <<config, mode, appliedOrder>>

\* the same instance goes on to the next element of the template
VisitNextElementIn(nodes) ==
    /\ pc = Visited
    /\ orig.type = ElementNode
    /\ orig.hasSource
    /\ \E n \in nodes : ElementVisit(n, appliedOrder, mode)
    /\ pc' = Revisited
    /\ UNCHANGED <<config, mode>>

\* the linter runs again over a template a fix-mode run changed: a new
\* instance of the rule with the same config, in either mode, visits the
\* element the first run left in the tree, read at the locations replaceNode
\* gave its tokens
Relint ==
    /\ pc = Visited
    /\ mode = FIX
    /\ Len(requests) > 0
    /\ \E m \in {FIX, DETECT} :
        /\ mode' = m
        /\ ElementVisit([tree EXCEPT !.hasSource = TRUE], <<>>, m)
    /\ pc' = Relinted
    /\ UNCHANGED <<config>>

Next == ParseConfig \/ VisitElement \/ VisitSyntheticElement \/ VisitMustache \/ Relint

\* one instance, one element (or mustache statement), and the second run of
\* the linter over what a fix left
Spec == Init /\ [][Next]_vars

ParseDefaultConfig == ParseConfigIn({RawBoolean(TRUE)})

VisitSeqElement == VisitElementIn(SeqNodes)

VisitNextElement == VisitNextElementIn(SeqNodes)

NextSeq == ParseDefaultConfig \/ VisitSeqElement \/ VisitNextElement

\* one instance with the default config visiting two elements in a row
SpecSeq == Init /\ [][NextSeq]_vars

TypeOK ==
    /\ pc \in {New, Ready, ConfigError, Disabled, Visited, Revisited, Relinted}
    /\ mode \in {FIX, DETECT}
    /\ Len(requests) <= 9

(* ------------------------- reading a node ------------------------------ *)

AllTokens(n) == n.attributes \o n.modifiers \o n.comments

\* the tokens of a node from left to right: by line, then by column
RECURSIVE SortByLoc(_)
SortByLoc(toks) ==
    IF Len(toks) = 0 THEN <<>>
    ELSE LET Key(t) == t.line * 1000 + t.col
             i == CHOOSE i \in 1..Len(toks) :
                     /\ \A j \in 1..Len(toks) : Key(toks[i]) <= Key(toks[j])
                     /\ \A j \in 1..(i - 1) : Key(toks[j]) > Key(toks[i])
         IN  <<toks[i]>> \o SortByLoc(SubSeq(toks, 1, i - 1) \o SubSeq(toks, i + 1, Len(toks)))

LeftToRight(n) == SortByLoc(AllTokens(n))

\* what a token is, whatever its location
Label(t) == <<t.kind, t.name>>

Labels(toks) == [i \in 1..Len(toks) |-> Label(toks[i])]

IsComment(t) == t.kind = MustacheCommentStatement

\* a name without its leading non-alphabetic characters
RECURSIVE StripLeading(_)
StripLeading(nm) ==
    IF Len(nm) = 0 \/ IsAlpha(nm[1]) THEN nm ELSE StripLeading(Tail(nm))

\* the spread token exists and its last position lies strictly between the
\* least first position and the greatest last position over all categories
Sandwiched(n) ==
    LET s == lastIndex(OfType(n.attributes, SPLATTRIBUTES))
        P == {calculateAttributeIndex(t) : t \in Range(AllTokens(n))}
    IN  s # UNDEF /\ MinOf(P) < s /\ s < MaxOf(P)

\* an element with source text has been checked
ElementChecked == pc \in {Visited, Revisited, Relinted} /\ orig.type = ElementNode /\ orig.hasSource

(* ------------------------------- claims -------------------------------- *)

\* the non-comment tokens of n, left to right, never step down in applied rank
RanksAscend(n, applied) ==
    LET toks == SelectSeq(LeftToRight(n), LAMBDA t : ~IsComment(t))
    IN  \A i, j \in 1..Len(toks) :
            i < j => getOrder(applied, getTokenType(toks[i])) <= getOrder(applied, getTokenType(toks[j]))

\* C1: for every permutation config and every element that is not sandwiched,
\* after check ran in fix mode the tokens of the resulting node, read left to
\* right, have non-decreasing applied rank.
C1_OrderCorrectAfterFix ==
    (ElementChecked /\ mode = FIX /\ config.order \in OrderPermutations /\ ~Sandwiched(orig))
        => RanksAscend(tree, appliedOrder)

\* a mustache statement that is not skipped has been checked
MustacheChecked ==
    pc = Visited /\ orig.type = MustacheStatement /\ orig.hasSource /\ orig.pathIsPath

\* the tokens of the result of the last check, in the order they are printed:
\* the hash pairs of a mustache statement in array order, the tokens of an
\* element by location
ResultTokens ==
    IF orig.type = MustacheStatement THEN tree.attributes ELSE LeftToRight(tree)

\* every non-comment category of toks is in non-decreasing order of normalized name
Alphabetized(toks) ==
    \A ty \in {ARGUMENTS, ATTRIBUTES, MODIFIERS, SPLATTRIBUTES} :
        LET cat == SelectSeq(toks, LAMBDA t : ~IsComment(t) /\ getTokenType(t) = ty)
        IN  \A i \in 2..Len(cat) :
                ~StrLt(StripLeading(cat[i].name), StripLeading(cat[i - 1].name))

\* C2: with alphabetize enabled, after check ran in fix mode on a node that is
\* not sandwiched, every non-comment category with two or more tokens is in
\* non-decreasing order of normalized name in the resulting node.
C2_AlphabetizedAfterFix ==
    ((ElementChecked \/ MustacheChecked) /\ mode = FIX
     /\ config.alphabetize /\ ~Sandwiched(orig))
        => Alphabetized(ResultTokens)

\* C3: running check in fix mode on the result of a fix-mode run yields the
\* same token sequence, and running it in detection mode reports nothing.
C3_FixIsIdempotent ==
    pc = Relinted =>
        /\ mode = FIX => Labels(LeftToRight(tree)) = Labels(LeftToRight(orig))
        /\ mode = DETECT => log = <<>>

\* C4: on a sandwiched element check logs nothing, requests no replacement
\* and changes nothing.
C4_SandwichedIsLeftAlone ==
    (ElementChecked /\ Sandwiched(orig))
        => log = <<>> /\ requests = <<>> /\ node = orig /\ tree = orig

\* in n, read left to right, every comment that a token follows in the
\* original is immediately followed by that same token
AnchorsKept(before, after) ==
    LET src == LeftToRight(before)
        out == LeftToRight(after)
    IN  \A i \in 1..(Len(src) - 1) :
            IsComment(src[i]) =>
                \E k \in 1..(Len(out) - 1) :
                    Label(out[k]) = Label(src[i]) /\ Label(out[k + 1]) = Label(src[i + 1])

\* C5: after any fix every comment that was immediately followed by a token
\* is immediately followed by that same token.
C5_CommentsKeepTheirAnchor ==
    (ElementChecked /\ mode = FIX /\ requests # <<>>) => AnchorsKept(orig, tree)

\* C6: check never mutates the node it is given in place.
C6_NodeIsNeverMutated ==
    pc \in {Visited, Revisited, Relinted} => node = orig

\* C7: parseConfig returns a config only when its order is a permutation of
\* arguments, attributes, modifiers.
C7_OnlyPermutationsAccepted ==
    pc = Ready => config.order \in OrderPermutations

\* C8: the applied order used for a node is the one resolved from that node's
\* own token groups.
C8_AppliedOrderIsPerNode ==
    ElementChecked => appliedOrder = resolveAppliedOrder(makeTokenGroups(orig), config.order)

\* the last position of a category of n (UNDEF when it has no token)
LastPosition(n, ty) ==
    LET P == {calculateAttributeIndex(t) :
                t \in {u \in Range(AllTokens(n)) : getTokenType(u) = ty}}
    IN  IF P = {} THEN UNDEF ELSE MaxOf(P)

\* the applied order as the resolver's three rules give it, with s and a the
\* last positions of the spread and of the attributes, and the extremes taken
\* over the categories that have tokens
SpreadPlacement(n, order) ==
    LET s == LastPosition(n, SPLATTRIBUTES)
        a == LastPosition(n, ATTRIBUTES)
        L == {LastPosition(n, ty) : ty \in Range(TokenTypes)} \ {UNDEF}
        three == SelectSeq(order, LAMBDA ty : ty # SPLATTRIBUTES)
    IN  IF s # UNDEF /\ (s = MaxOf(L) \/ (a # UNDEF /\ s > a))
        THEN three \o <<SPLATTRIBUTES>>
        ELSE IF s # UNDEF /\ (s = MinOf(L) \/ (a # UNDEF /\ s < a))
        THEN <<SPLATTRIBUTES>> \o three
        ELSE three \o <<SPLATTRIBUTES>>

\* an element has been checked by an instance that had no memoized order
FreshlyResolved == ElementChecked /\ pc \in {Visited, Relinted}

\* C9: for a freshly resolved node the applied order is the configured order
\* with splattributes appended when s is the greatest last position or s is
\* defined and greater than a, else prepended when s is the least last
\* position or s is defined and less than a, else appended; for every defined
\* s, position 0 included.
C9_SpreadPlacementAsResolved ==
    FreshlyResolved => appliedOrder = SpreadPlacement(orig, config.order)

\* a freshly resolved node whose spread sits at position 0 among other tokens
\* and was placed first
C9_SpreadAtPositionZero ==
    /\ FreshlyResolved
    /\ LastPosition(orig, SPLATTRIBUTES) = 0
    /\ Len(AllTokens(orig)) > 1
    /\ \E t \in Range(AllTokens(orig)) : calculateAttributeIndex(t) > 0
    /\ appliedOrder[1] = SPLATTRIBUTES

\* every request of the visit came from the alphabetizing fix
OnlyAlphabetized ==
    requests # <<>> /\ \A i \in 1..Len(requests) : requests[i] = ALPHABETIZE

\* C10: after the alphabetizing fix the spread is the last token of the
\* attributes super-category when splattributes has applied rank 3 and the
\* first when it has applied rank 0.
C10_SpreadEndsAtAssignedEdge ==
    (ElementChecked /\ mode = FIX /\ OnlyAlphabetized
     /\ OfType(tree.attributes, SPLATTRIBUTES) # <<>>)
        => LET A == tree.attributes
               r == getOrder(appliedOrder, SPLATTRIBUTES)
           IN  /\ r = 3 => A[Len(A)].name = SplatName
               /\ r = 0 => A[1].name = SplatName

\* how many tokens of toks are the token t, whatever their location
Count(toks, t) == Cardinality({i \in 1..Len(toks) : Label(toks[i]) = Label(t)})

\* the last token of n in source order is a comment
TrailingComment(n) ==
    /\ Len(AllTokens(n)) > 0
    /\ IsComment(LeftToRight(n)[Len(AllTokens(n))])

\* C11: a comment that no token follows in the original source is present
\* exactly once, at the end of the resulting token sequence, after an order
\* fix and after an alphabetization fix.
C11_TrailingCommentStaysLast ==
    (ElementChecked /\ mode = FIX /\ requests # <<>> /\ TrailingComment(orig))
        => LET last == LeftToRight(orig)[Len(AllTokens(orig))]
               out  == LeftToRight(tree)
           IN  /\ Len(out) > 0
               /\ Label(out[Len(out)]) = Label(last)
               /\ Count(out, last) = 1

\* C12: whatever fixes one visit applies to an element, the rebuilt node holds
\* exactly the tokens of the original node: none is dropped, none duplicated.
C12_TokensAreConserved ==
    (ElementChecked /\ mode = FIX /\ requests # <<>>)
        => \A t \in Range(AllTokens(orig)) \cup Range(AllTokens(tree)) :
               Count(AllTokens(tree), t) = Count(AllTokens(orig), t)

\* the tokens of n, in true source order, are grouped by applied rank and
\* alphabetized within each category
AlreadyInOrder(n, applied) ==
    RanksAscend(n, applied) /\ Alphabetized(LeftToRight(n))

\* C13: for an element, on one line or on several, whose tokens in true source
\* order are already grouped in applied-rank order and alphabetized within
\* each category, check emits no diagnostic and requests no replacement.
C13_NoFalsePositives ==
    (ElementChecked /\ AlreadyInOrder(orig, appliedOrder))
        => log = <<>> /\ requests = <<>>

====
